---- MODULE Spec2Model ----
(***************************************************************************)
(* Werewolf game orchestration engine (src/game_optimized_2.py,            *)
(* class WerewolfGame): the phase loop of run(), night_phase(),            *)
(* day_phase() and check_win_condition(), with the decision oracle         *)
(* (call_api) and the random source as nondeterministic inputs.            *)
(*                                                                         *)
(* Players are numbered 1..Len(role) in roster order; a player's number    *)
(* stands for its name.  0 (None) stands for Python's None and, as an      *)
(* oracle response, for any text that is no player's name (the empty       *)
(* string of a failed call included).  Suspicion levels and priority       *)
(* scores are kept in hundredths (0.25 is 25).                             *)
(***************************************************************************)
EXTENDS Integers, Sequences, FiniteSets, TLC

\* ------------------------------------------------------------- bounds
MaxPlayers == 4          \* largest roster
MaxRound == 5            \* night phases explored when the oracle answers
MaxRoundFail == 6        \* night phases explored under total oracle failure
MaxTalkRound == 1        \* night phases explored when statements are free
MaxSuspicionRound == 3
\* night phases explored when the oracle answers every prompt with the first
\* candidate
MaxScenarioRound == 8
\* night phases explored in a game of one of the earlier engines
MaxEarlyRound == 2
\* the names whose roles the shuffle of the scenario moves, from the first on
ShuffledNames == 5   \* night phases explored when a player talks and a prompt is answered

\* ---------------------------------------------------------- constants
None == 0
PassVote == 0 - 1        \* the recorded vote "Pass"
discussion_rounds == 2
Roles == {"Werewolf", "Villager", "Seer", "Medic"}

VARIABLES
    role,            \* Player.role, by player
    is_alive,        \* Player.is_alive
    last_protected,  \* Player.last_protected
    knowledge,       \* Player.knowledge: sequence of entries
    statements,      \* Player.statements
    suspicion_changes, \* Player.suspicion_changes
    round,           \* WerewolfGame.round
    game_history,    \* WerewolfGame.game_history
    metrics,         \* WerewolfGame.metrics
    pc,              \* position in run()
    discussion_round,\* day_phase: loop index of the discussion loop
    spoken,          \* day_phase: speakers already served in this discussion round
    day_alive,       \* day_phase: alive_players, taken at the start of the day
    votes,           \* day_phase: the votes dict
    night,           \* night_phase: the locals of the last night (victim, target, protected)
    win_result,      \* run(): the result of the last win check
    metrics_file,    \* the metrics summary written by save_metrics
    oracle,          \* which decision points the oracle answers; fixed per game
    engine           \* the engine that runs the game; fixed per game

vars == <<role, is_alive, last_protected, knowledge, statements,
          suspicion_changes, round, game_history, metrics, pc,
          discussion_round, spoken, day_alive, votes, night, win_result,
          metrics_file, oracle, engine>>

players == 1..Len(role)

\* -------------------------------------------------------------- helpers
RECURSIVE SeqOf(_, _)
\* the members of set S (of player numbers) in roster order, up to n
SeqOf(S, n) ==
    IF n = 0 THEN <<>>
    ELSE IF n \in S THEN Append(SeqOf(S, n - 1), n) ELSE SeqOf(S, n - 1)

Range(s) == {s[i] : i \in 1..Len(s)}

Min2(a, b) == IF a < b THEN a ELSE b
Max2(a, b) == IF a > b THEN a ELSE b

\* a name written without capital letters survives statement.lower()
NameIsLower(p) == p % 2 = 0

\* ------------------------------------------------------------ statements
\* A statement is what the engine's text scans see in it:
\*   names    players whose name occurs in it ("p.name in statement")
\*   suspect  the literal word "suspect" occurs
\*   suspect_lower  "suspect" occurs in statement.lower()
\*   accuses  "suspect" or "accuse" occurs in statement.lower()
\*   defends  "innocent" or "defend" occurs in statement.lower()
\*   seer_claim / medic_claim   "I am the Seer" / "I am the Medic" occurs
\*   words    len(statement.split())
Silent ==
    [names |-> {}, suspect |-> FALSE, suspect_lower |-> FALSE,
     accuses |-> FALSE, defends |-> FALSE,
     seer_claim |-> FALSE, medic_claim |-> FALSE, words |-> 0]
Accuse(t) ==
    [Silent EXCEPT !.names = {t}, !.suspect = TRUE, !.suspect_lower = TRUE,
                   !.accuses = TRUE, !.words = 3]
Defend(t) == [Silent EXCEPT !.names = {t}, !.defends = TRUE, !.words = 3]
Mention(t) == [Silent EXCEPT !.names = {t}, !.words = 3]
ClaimSeer(t) ==
    [Silent EXCEPT !.names = {t}, !.suspect = TRUE, !.suspect_lower = TRUE,
                   !.accuses = TRUE, !.seer_claim = TRUE, !.words = 36]
\* the statements the oracle makes: about nobody, or about one of the players
\* of oracle.about
Vocabulary ==
    {Silent} \cup {Accuse(t) : t \in oracle.about} \cup {Defend(t) : t \in oracle.about}
             \cup {Mention(t) : t \in oracle.about}
             \cup {ClaimSeer(t) : t \in oracle.about}

\* ---------------------------------------------------------------- oracle
\* mutant: a failed call is repeated until the oracle answers
call_api_retried(kind, answers) == answers \cup {None}

\* call_api: the text the oracle returns for a prompt of the given kind, any of
\* `answers` when the oracle answers that kind of prompt, and "" (None) when the
\* call fails.
call_api(kind, answers) ==
    IF kind \in oracle.answers THEN answers \cup {None} ELSE {None}

\* the first of `candidates` (a list of players) other than `asker`, None
\* without one
FirstOther(asker, candidates) ==
    LET others == SelectSeq(candidates, LAMBDA p : p # asker)
    IN  IF others = <<>> THEN None ELSE others[1]

\* the response to a prompt of the given kind that names `candidates` and is
\* put on behalf of `asker`: the first candidate other than the asker from the
\* oracle that always answers so, any of `answers` or "" from the others
Respond(kind, asker, candidates, answers) ==
    IF oracle.first THEN {FirstOther(asker, candidates)}
    ELSE call_api(kind, answers)

\* a statement that is a player's name and nothing else
Named(t) == IF t = None THEN Silent ELSE [Silent EXCEPT !.names = {t}, !.words = 1]

\* call_api for a discussion statement of `player`, the prompt naming the
\* alive players
call_api_statement(player, player_names) ==
    IF oracle.first THEN {Named(FirstOther(player, player_names))}
    ELSE IF player \in oracle.talkers THEN Vocabulary ELSE {Silent}

\* ---------------------------------------------------------- player lists
\* mutant: the dead players are listed too
get_all_players == SeqOf(players, Len(role))

get_alive_players == SeqOf({p \in players : is_alive[p]}, Len(role))
get_werewolves == SeqOf({p \in players : role[p] = "Werewolf" /\ is_alive[p]}, Len(role))
get_villagers == SeqOf({p \in players : role[p] # "Werewolf" /\ is_alive[p]}, Len(role))

\* mutant: Werewolves win only when they outnumber the others
WinOfStrict(werewolves, villagers) ==
    IF werewolves = 0 THEN "Villagers win!"
    ELSE IF werewolves > villagers THEN "Werewolves win!"
    ELSE "None"

\* mutant: the Werewolves never win
WinOfVillagersOnly(werewolves, villagers) ==
    IF werewolves = 0 THEN "Villagers win!" ELSE "None"

\* check_win_condition on the two counts
WinOf(werewolves, villagers) ==
    IF werewolves = 0 THEN "Villagers win!"
    ELSE IF werewolves >= villagers THEN "Werewolves win!"
    ELSE "None"

check_win_condition == WinOf(Len(get_werewolves), Len(get_villagers))

\* ------------------------------------------------------- activity level
RECURSIVE TotalWords(_)
\* total_words: the words of the statements of more than 3 words
TotalWords(stmts) ==
    IF stmts = <<>> THEN 0
    ELSE (IF Head(stmts).words > 3 THEN Head(stmts).words ELSE 0) + TotalWords(Tail(stmts))

\* analyze_player_activity, in tenths: min(statement_count * (avg_words / 5), 10)
analyze_player_activity(p) == Min2(2 * TotalWords(statements[p]), 100)

\* ----------------------------------------------------------- key targets
Scored(s, score) == [i \in 1..Len(s) |-> <<s[i], score>>]

RECURSIVE Repeat(_, _)
Repeat(x, n) == IF n = 0 THEN <<>> ELSE <<x>> \o Repeat(x, n - 1)

RECURSIVE Flatten(_)
Flatten(ss) == IF ss = <<>> THEN <<>> ELSE Head(ss) \o Flatten(Tail(ss))

HasStmt(p, Test(_)) == \E i \in 1..Len(statements[p]) : Test(statements[p][i])

NonWolvesAlive == {p \in players : is_alive[p] /\ role[p] # "Werewolf"}

\* identify_key_targets("Werewolf"): a list of (name, score)
WerewolfKeyTargets ==
    LET n == Len(role)
        claimed == SeqOf({p \in NonWolvesAlive :
                           HasStmt(p, LAMBDA s : s.seer_claim \/ s.medic_claim)}, n)
        vocal == SeqOf({p \in NonWolvesAlive : analyze_player_activity(p) >= 70}, n)
        first == Scored(claimed, 100) \o Scored(vocal, 80)
        nonwolves == SeqOf(NonWolvesAlive, n)
        Suspecting(p) ==
            Cardinality({w \in Range(get_werewolves) :
                           HasStmt(p, LAMBDA s : w \in s.names /\ s.suspect)})
        second == Flatten([i \in 1..Len(nonwolves) |->
                             Repeat(<<nonwolves[i], 70>>, Suspecting(nonwolves[i]))])
    IN  IF first # <<>> THEN first
        ELSE IF second # <<>> THEN second
        ELSE Scored(nonwolves, 50)

\* identify_key_targets("Medic")
MedicKeyTargets(rnd) ==
    LET n == Len(role)
        alive == get_alive_players
        seers == SeqOf({p \in NonWolvesAlive : HasStmt(p, LAMBDA s : s.seer_claim)}, n)
        vocal == SeqOf({p \in NonWolvesAlive : analyze_player_activity(p) >= 70}, n)
        SuspicionCount(p) ==
            Cardinality({o \in Range(alive) :
                           o # p /\ HasStmt(o, LAMBDA s : p \in s.names /\ s.suspect)})
        suspected == SeqOf({p \in NonWolvesAlive : SuspicionCount(p) >= 2}, n)
        \* "player" is the variable left over from the loop above: the last alive player
        late == IF rnd >= 3 /\ alive # <<>> THEN <<<<alive[Len(alive)], 60>>>> ELSE <<>>
    IN  Scored(seers, 100) \o Scored(vocal, 80) \o Scored(suspected, 70) \o late

\* mutant: among the entries of the highest score the last one is taken
LastMax(targets) ==
    LET best == CHOOSE i \in 1..Len(targets) :
                  /\ \A j \in 1..Len(targets) : targets[j][2] <= targets[i][2]
                  /\ \A j \in (i + 1)..Len(targets) : targets[j][2] < targets[i][2]
    IN  targets[best][1]

\* the first entry of the highest score: valid_targets.sort(reverse=True)[0]
FirstMax(targets) ==
    LET best == CHOOSE i \in 1..Len(targets) :
                  /\ \A j \in 1..Len(targets) : targets[j][2] <= targets[i][2]
                  /\ \A j \in 1..(i - 1) : targets[j][2] < targets[i][2]
    IN  targets[best][1]

\* ---------------------------------------------------------- night phase
\* the locals of night_phase outside a night
NoNight ==
    [alive |-> {}, victim_name |-> None, target_name |-> None,
     protected_name |-> None, victim |-> None, target |-> None,
     protected |-> None, seer |-> None, medic |-> None]

Raised == 0 - 2          \* marks a step of the phase that raises an exception

\* random.choice(seq): any member, an IndexError on the empty list
random_choice(S) == IF S = {} THEN {Raised} ELSE S

\* mutant: any alive player the oracle names is taken, a random alive player
\* otherwise (the selection of the earlier engines)
WerewolfVictimAnyAlive(victim_name) ==
    LET alive == Range(get_alive_players)
    IN  IF get_werewolves = <<>> THEN {None}
        ELSE IF victim_name \in alive THEN {victim_name}
        ELSE random_choice(alive)

\* Werewolf selection: the victims the code can settle on for a response
WerewolfVictim(victim_name) ==
    LET alive == Range(get_alive_players)
        victim == IF victim_name \in alive THEN victim_name ELSE None
        key_targets == WerewolfKeyTargets
        valid_targets == SelectSeq(key_targets,
                           LAMBDA t : t[1] \in alive /\ role[t[1]] # "Werewolf")
    IN  IF get_werewolves = <<>> THEN {None}
        ELSE IF victim = None \/ role[victim] = "Werewolf"
             THEN IF valid_targets # <<>> THEN {FirstMax(valid_targets)}
                  ELSE IF NonWolvesAlive # {} THEN random_choice(NonWolvesAlive)
                  ELSE {None}
             ELSE {victim}

\* the first alive player of a role, None when there is none
FirstAlive(r) ==
    LET s == SelectSeq(get_alive_players, LAMBDA p : role[p] = r)
    IN  IF s = <<>> THEN None ELSE s[1]

\* mutant: the Seer investigates nobody
SeerTargetSkipped(target_name) == {None}

\* mutant: the Seer is among its own valid targets
SeerTargetSelf(target_name) ==
    LET seer == FirstAlive("Seer")
        valid_targets == get_alive_players
        investigated == {knowledge[seer][i].name : i \in 1..Len(knowledge[seer])}
        uninvestigated == SelectSeq(valid_targets, LAMBDA p : p \notin investigated)
    IN  IF seer = None \/ valid_targets = <<>> THEN {None}
        ELSE IF target_name \in Range(valid_targets) THEN {target_name}
        ELSE IF uninvestigated # <<>> THEN {uninvestigated[1]}
        ELSE random_choice(Range(valid_targets))

\* Seer investigation: the targets the code can settle on for a response
\* (None: no investigation this night)
SeerTarget(target_name) ==
    LET seer == FirstAlive("Seer")
        valid_targets == SelectSeq(get_alive_players, LAMBDA p : p # seer)
        investigated == {knowledge[seer][i].name : i \in 1..Len(knowledge[seer])}
        uninvestigated == SelectSeq(valid_targets, LAMBDA p : p \notin investigated)
        \* suspicious_players holds uninvestigated players only, so it is empty
        \* whenever uninvestigated is
    IN  IF seer = None \/ valid_targets = <<>> THEN {None}
        ELSE IF target_name \in Range(valid_targets) THEN {target_name}
        ELSE IF uninvestigated # <<>> THEN {uninvestigated[1]}
        ELSE random_choice(Range(valid_targets))

\* the Medic's valid_targets: the alive players but the one protected last
MedicValidTargets ==
    LET medic == FirstAlive("Medic")
    IN  IF medic = None THEN <<>>
        ELSE SelectSeq(get_alive_players, LAMBDA p : p # last_protected[medic])

\* mutant: without a valid answer of the oracle nobody is protected
MedicProtectedNoFallback(protected_name, rnd) ==
    LET medic == FirstAlive("Medic")
    IN  IF medic = None THEN {None}
        ELSE IF protected_name \in Range(MedicValidTargets) THEN {protected_name}
        ELSE {None}

\* mutant: the player protected last night is not excluded
MedicProtectedRepeat(protected_name, rnd) ==
    LET medic == FirstAlive("Medic")
        alive == Range(get_alive_players)
    IN  IF medic = None THEN {None}
        ELSE IF protected_name \in alive THEN {protected_name}
        ELSE random_choice(alive)

\* mutant: the Medic is no target of its own protection
MedicProtectedOthersOnly(protected_name, rnd) ==
    LET medic == FirstAlive("Medic")
        valid_targets == SelectSeq(get_alive_players,
                                   LAMBDA p : p # last_protected[medic] /\ p # medic)
        valid_names == Range(valid_targets)
        high_priority == SelectSeq(MedicKeyTargets(rnd),
                                   LAMBDA t : t[2] >= 80 /\ t[1] \in valid_names)
    IN  IF medic = None THEN {None}
        ELSE IF protected_name \in valid_names THEN {protected_name}
        ELSE IF high_priority # <<>> THEN {high_priority[1][1]}
        ELSE random_choice(valid_names)

\* Medic protection: the players the code can settle on for a response
MedicProtected(protected_name, rnd) ==
    LET medic == FirstAlive("Medic")
        valid_targets == SelectSeq(get_alive_players,
                                   LAMBDA p : p # last_protected[medic])
        valid_names == Range(valid_targets)
        high_priority == SelectSeq(MedicKeyTargets(rnd),
                                   LAMBDA t : t[2] >= 80 /\ t[1] \in valid_names)
    IN  IF medic = None THEN {None}
        ELSE IF protected_name \in valid_names THEN {protected_name}
        ELSE IF high_priority # <<>> THEN {high_priority[1][1]}
        ELSE random_choice(valid_names)

\* mutant: every investigation finds no Werewolf
FactNotWerewolf(target) ==
    [name |-> target, result |-> "Not a Werewolf", level |-> 0]

\* the entry an investigation appends: (target.name, result)
Fact(target) ==
    [name |-> target,
     result |-> IF role[target] = "Werewolf" THEN "Werewolf" ELSE "Not a Werewolf",
     level |-> 0]

\* mutant: the protection is ignored
ResolveNightUnprotected(victim, protected) ==
    IF victim # None THEN [dies |-> victim, saved |-> FALSE]
    ELSE [dies |-> None, saved |-> FALSE]

\* mutant: a save is not reported as one
ResolveNightUncounted(victim, protected) ==
    IF victim # None /\ protected # None /\ victim = protected
    THEN [dies |-> None, saved |-> FALSE]
    ELSE IF victim # None THEN [dies |-> victim, saved |-> FALSE]
    ELSE [dies |-> None, saved |-> FALSE]

\* mutant: the victim is dead before the Medic acts, so a Medic that is the
\* victim protects nobody
ResolveNightVictimFirst(victim, protected) ==
    IF victim # None /\ protected # None /\ victim = protected
       /\ role[victim] # "Medic"
    THEN [dies |-> None, saved |-> TRUE]
    ELSE IF victim # None THEN [dies |-> victim, saved |-> FALSE]
    ELSE [dies |-> None, saved |-> FALSE]

\* Resolve night actions: who dies, and whether the Medic saved the victim
ResolveNight(victim, protected) ==
    IF victim # None /\ protected # None /\ victim = protected
    THEN [dies |-> None, saved |-> TRUE]
    ELSE IF victim # None THEN [dies |-> victim, saved |-> FALSE]
    ELSE [dies |-> None, saved |-> FALSE]

\* the night phases explored, by what the oracle answers
RoundCap ==
    IF engine # "game_optimized_2" THEN MaxEarlyRound
    ELSE IF oracle.first THEN MaxScenarioRound
    ELSE IF oracle.talkers # {} /\ oracle.answers # {} THEN MaxSuspicionRound
    ELSE IF oracle.talkers # {} THEN MaxTalkRound
    ELSE IF oracle.answers = {} THEN MaxRoundFail
    ELSE MaxRound

night_phase ==
    /\ pc = "night"
    /\ round < RoundCap
    /\ \E victim_name \in Respond("wolf", FirstAlive("Werewolf"),
                                  SeqOf(NonWolvesAlive, Len(role)), players),
          target_name \in Respond("seer", FirstAlive("Seer"),
                                  get_alive_players, players),
          protected_name \in Respond("medic", FirstAlive("Medic"),
                                     MedicValidTargets, players) :
       \E victim \in WerewolfVictim(victim_name),
          target \in SeerTarget(target_name),
          protected \in MedicProtected(protected_name, round + 1) :
          LET seer == FirstAlive("Seer")
              medic == FirstAlive("Medic")
              res == ResolveNight(victim, protected)
          IN  IF Raised \in {victim, target, protected}
              THEN /\ pc' = "error"
                   /\ round' = round + 1
                   /\ metrics' = [metrics EXCEPT !.rounds_played = round + 1]
                   /\ UNCHANGED <<is_alive, last_protected, knowledge,
                                  game_history, night>>
              ELSE /\ pc' = "night_check"
                   /\ round' = round + 1
                   /\ knowledge' =
                        IF target # None
                        THEN [knowledge EXCEPT ![seer] = Append(@, Fact(target))]
                        ELSE knowledge
                   /\ last_protected' =
                        IF protected # None
                        THEN [last_protected EXCEPT ![medic] = protected]
                        ELSE last_protected
                   /\ is_alive' =
                        IF res.dies # None
                        THEN [is_alive EXCEPT ![res.dies] = FALSE]
                        ELSE is_alive
                   /\ game_history' =
                        Append(game_history,
                               [phase |-> "Night", round |-> round + 1,
                                name |-> res.dies, saved |-> res.saved])
                   /\ metrics' =
                        [metrics EXCEPT
                           !.rounds_played = round + 1,
                           !.total_seer_investigations =
                               IF target # None THEN @ + 1 ELSE @,
                           !.medic_successful_protections =
                               IF res.saved THEN @ + 1 ELSE @]
                   /\ night' = [alive |-> Range(get_alive_players),
                                victim_name |-> victim_name,
                                target_name |-> target_name,
                                protected_name |-> protected_name,
                                victim |-> victim, target |-> target,
                                protected |-> protected,
                                seer |-> seer, medic |-> medic]
    /\ UNCHANGED <<role, statements, suspicion_changes, discussion_round,
                   spoken, day_alive, votes, win_result, metrics_file, oracle, engine>>

\* ------------------------------------- night phase of the earlier engines
\* game_2_rounds and game_optimized_log. Werewolf selection: the alive player
\* the oracle names, random.choice(alive_players) otherwise
WerewolfVictim_early(victim_name) ==
    LET alive == Range(get_alive_players)
    IN  IF get_werewolves = <<>> THEN {None}
        ELSE IF victim_name \in alive THEN {victim_name}
        ELSE random_choice(alive)

\* Seer investigation of game_2_rounds: the valid target named, a random valid
\* target otherwise
SeerTarget_2_rounds(target_name) ==
    LET seer == FirstAlive("Seer")
        valid_targets == SelectSeq(get_alive_players, LAMBDA p : p # seer)
    IN  IF seer = None \/ valid_targets = <<>> THEN {None}
        ELSE IF target_name \in Range(valid_targets) THEN {target_name}
        ELSE random_choice(Range(valid_targets))

\* Seer investigation of game_optimized_log: the valid target named, the first
\* uninvestigated one otherwise, a random one when all are investigated
SeerTarget_optimized_log(target_name) ==
    LET seer == FirstAlive("Seer")
        valid_targets == SelectSeq(get_alive_players, LAMBDA p : p # seer)
        investigated == {knowledge[seer][i].name : i \in 1..Len(knowledge[seer])}
        uninvestigated == SelectSeq(valid_targets, LAMBDA p : p \notin investigated)
    IN  IF seer = None \/ valid_targets = <<>> THEN {None}
        ELSE IF target_name \in Range(valid_targets) THEN {target_name}
        ELSE IF uninvestigated # <<>> THEN {uninvestigated[1]}
        ELSE random_choice(Range(valid_targets))

\* Medic protection of both: the valid target named, nobody otherwise
MedicProtected_early(protected_name) ==
    IF FirstAlive("Medic") # None /\ protected_name \in Range(MedicValidTargets)
    THEN protected_name ELSE None

\* night_phase of the engine that runs the game, game_2_rounds or
\* game_optimized_log
night_phase_early ==
    /\ pc = "night"
    /\ round < RoundCap
    /\ \E victim_name \in call_api("wolf", players),
          target_name \in call_api("seer", players),
          protected_name \in call_api("medic", players) :
       \E victim \in WerewolfVictim_early(victim_name),
          target \in (IF engine = "game_2_rounds"
                      THEN SeerTarget_2_rounds(target_name)
                      ELSE SeerTarget_optimized_log(target_name)) :
          LET seer == FirstAlive("Seer")
              medic == FirstAlive("Medic")
              protected == MedicProtected_early(protected_name)
              res == ResolveNight(victim, protected)
          IN  IF Raised \in {victim, target}
              THEN /\ pc' = "error"
                   /\ round' = round + 1
                   /\ metrics' = [metrics EXCEPT !.rounds_played = round + 1]
                   /\ UNCHANGED <<is_alive, last_protected, knowledge,
                                  game_history, night>>
              ELSE /\ pc' = "night_check"
                   /\ round' = round + 1
                   /\ knowledge' =
                        IF target # None
                        THEN [knowledge EXCEPT ![seer] = Append(@, Fact(target))]
                        ELSE knowledge
                   /\ last_protected' =
                        IF protected # None
                        THEN [last_protected EXCEPT ![medic] = protected]
                        ELSE last_protected
                   /\ is_alive' =
                        IF res.dies # None
                        THEN [is_alive EXCEPT ![res.dies] = FALSE]
                        ELSE is_alive
                   /\ game_history' =
                        Append(game_history,
                               [phase |-> "Night", round |-> round + 1,
                                name |-> res.dies, saved |-> res.saved])
                   /\ metrics' =
                        [metrics EXCEPT
                           !.rounds_played = round + 1,
                           !.total_seer_investigations =
                               IF target # None THEN @ + 1 ELSE @]
                   /\ night' = [alive |-> Range(get_alive_players),
                                victim_name |-> victim_name,
                                target_name |-> target_name,
                                protected_name |-> protected_name,
                                victim |-> victim, target |-> target,
                                protected |-> protected,
                                seer |-> seer, medic |-> medic]
    /\ UNCHANGED <<role, statements, suspicion_changes, discussion_round,
                   spoken, day_alive, votes, win_result, metrics_file, oracle, engine>>

\* ---------------------------------------------------------- save_metrics
\* numerator / denominator in hundredths; a ZeroDivisionError on denominator 0
Divide(numerator, denominator) ==
    IF denominator = 0 THEN Raised ELSE (numerator * 100) \div denominator

\* mutant: the ratio is computed without looking at the denominator
RatioUnguarded(numerator, denominator) == Divide(numerator, denominator)

\* "numerator / denominator if denominator > 0 else 0"
Ratio(numerator, denominator) ==
    IF denominator > 0 THEN Divide(numerator, denominator) ELSE 0

NoMetricsFile == [written |-> FALSE]

\* metrics_summary of the metrics record m
save_metrics(m) ==
    [written |-> TRUE,
     rounds_played |-> m.rounds_played,
     winner |-> m.winner,
     seer_accuracy |-> Ratio(m.seer_correct_accusations, m.total_seer_investigations),
     seer_reveal_rate |-> Ratio(m.seer_reveals, m.rounds_played),
     total_investigations |-> m.total_seer_investigations,
     deception_rate |-> Ratio(m.werewolf_deceptions, m.total_discussion_statements),
     team_coordination |-> Ratio(m.werewolf_team_coordination, m.rounds_played),
     successful_protections |-> m.medic_successful_protections,
     voting_accuracy |-> Ratio(m.votes_against_werewolves, m.total_votes),
     \* village_consensus_rate is kept in hundredths already
     consensus_rate |-> Ratio(m.village_consensus_rate, m.rounds_played * 100),
     suspicion_change_rate |-> Ratio(m.suspicion_changes, m.total_discussion_statements),
     vote_discussion_alignment |-> Ratio(m.vote_discussion_alignment, m.total_votes),
     statement_variety_rate |-> Ratio(m.statement_variety, m.total_discussion_statements),
     total_statements |-> m.total_discussion_statements]

\* the ratios of a metrics summary
Ratios(f) ==
    {f.seer_accuracy, f.seer_reveal_rate, f.deception_rate, f.team_coordination,
     f.voting_accuracy, f.consensus_rate, f.suspicion_change_rate,
     f.vote_discussion_alignment, f.statement_variety_rate}

\* ------------------------------------------------------------ win check
\* mutant: the loop goes on after a winner was found
check_win_no_break(next_pc) ==
    /\ win_result' = check_win_condition
    /\ metrics' = IF check_win_condition # "None"
                  THEN [metrics EXCEPT !.winner = check_win_condition]
                  ELSE metrics
    /\ pc' = next_pc
    /\ night' = NoNight
    /\ votes' = <<>>
    /\ day_alive' = {}
    /\ metrics_file' = IF check_win_condition # "None"
                       THEN save_metrics([metrics EXCEPT !.winner = check_win_condition])
                       ELSE metrics_file
    /\ UNCHANGED <<role, is_alive, last_protected, knowledge, statements,
                   suspicion_changes, round, game_history, discussion_round,
                   spoken, oracle, engine>>

\* mutant: the winner found is not written to the metrics
check_win_unrecorded(next_pc) ==
    /\ win_result' = check_win_condition
    /\ IF check_win_condition # "None"
       THEN /\ metrics' = metrics
            /\ metrics_file' = save_metrics(metrics')
            \* a division that raises leaves run() before the break
            /\ pc' = IF Raised \in Ratios(metrics_file') THEN "error" ELSE "done"
       ELSE /\ pc' = next_pc
            /\ UNCHANGED <<metrics, metrics_file>>
    \* the locals of the phase that returned are gone
    /\ night' = NoNight
    /\ votes' = <<>>
    /\ day_alive' = {}
    /\ UNCHANGED <<role, is_alive, last_protected, knowledge, statements,
                   suspicion_changes, round, game_history, discussion_round,
                   spoken, oracle, engine>>

\* run(): win_result = self.check_win_condition(); if win_result: ... break
check_win(next_pc) ==
    /\ win_result' = check_win_condition
    /\ IF check_win_condition # "None"
       THEN /\ metrics' = [metrics EXCEPT !.winner = check_win_condition]
            /\ metrics_file' = save_metrics(metrics')
            \* a division that raises leaves run() before the break
            /\ pc' = IF Raised \in Ratios(metrics_file') THEN "error" ELSE "done"
       ELSE /\ pc' = next_pc
            /\ UNCHANGED <<metrics, metrics_file>>
    \* the locals of the phase that returned are gone
    /\ night' = NoNight
    /\ votes' = <<>>
    /\ day_alive' = {}
    /\ UNCHANGED <<role, is_alive, last_protected, knowledge, statements,
                   suspicion_changes, round, game_history, discussion_round,
                   spoken, oracle, engine>>

check_after_night == pc = "night_check" /\ check_win("day")

check_after_day == pc = "day_check" /\ check_win("night")

\* ------------------------------------------------------------ day phase
\* mutant: the votes are collected without a discussion
day_start_no_discussion ==
    /\ pc = "day"
    /\ day_alive' = Range(get_alive_players)
    /\ votes' = <<>>
    /\ pc' = "vote" /\ discussion_round' = 0
    /\ spoken' = {}
    /\ UNCHANGED <<role, is_alive, last_protected, knowledge, statements,
                   suspicion_changes, round, game_history, metrics, night,
                   win_result, metrics_file, oracle, engine>>

\* mutant: the day phase counts as a round of its own
day_start_counts_round ==
    /\ pc = "day"
    /\ day_alive' = Range(get_alive_players)
    /\ votes' = <<>>
    /\ IF discussion_rounds >= 1
       THEN pc' = "discuss" /\ discussion_round' = 1
       ELSE pc' = "vote" /\ discussion_round' = 0
    /\ spoken' = {}
    /\ round' = round + 1
    /\ metrics' = [metrics EXCEPT !.rounds_played = round + 1]
    /\ UNCHANGED <<role, is_alive, last_protected, knowledge, statements,
                   suspicion_changes, game_history, night,
                   win_result, metrics_file, oracle, engine>>

\* day_phase up to the discussion loop: alive_players = self.get_alive_players()
day_start ==
    /\ pc = "day"
    /\ day_alive' = Range(get_alive_players)
    /\ votes' = <<>>
    /\ IF discussion_rounds >= 1
       THEN pc' = "discuss" /\ discussion_round' = 1
       ELSE pc' = "vote" /\ discussion_round' = 0
    /\ spoken' = {}
    /\ UNCHANGED <<role, is_alive, last_protected, knowledge, statements,
                   suspicion_changes, round, game_history, metrics, night,
                   win_result, metrics_file, oracle, engine>>

\* existing_suspicion: the first float level held for target p, 0.0 without one
ExistingSuspicion(kn, p) ==
    LET floats == SelectSeq(kn, LAMBDA e : e.name = p /\ e.result = "float")
    IN  IF floats = <<>> THEN 0 ELSE floats[1].level

\* mutant: the name is looked up without regard to its letter case
SuspicionChangeNoCase(player, kn, stmt, p) ==
    LET lexical == IF stmt.accuses THEN 25
                   ELSE IF stmt.defends THEN 0 - 20
                   ELSE 0
        confirmed == /\ role[player] = "Seer"
                     /\ \E i \in 1..Len(kn) : kn[i].name = p /\ kn[i].result = "Werewolf"
    IN  IF confirmed THEN 50 ELSE lexical

\* suspicion_change of a statement of `player` for the named target p
SuspicionChange(player, kn, stmt, p) ==
    LET lexical == IF stmt.accuses
                   THEN (IF NameIsLower(p) THEN 25 ELSE 0)
                   ELSE IF stmt.defends
                   THEN (IF NameIsLower(p) THEN 0 - 20 ELSE 0)
                   ELSE 0
        confirmed == /\ role[player] = "Seer"
                     /\ \E i \in 1..Len(kn) : kn[i].name = p /\ kn[i].result = "Werewolf"
    IN  IF confirmed THEN 50 ELSE lexical

\* mutant: the sum is stored as it is
ClampNone(x) == x

\* max(0.0, min(1.0, x))
Clamp(x) == Max2(0, Min2(100, x))

RECURSIVE UpdateSuspicionsAlways(_, _, _, _)
\* mutant: an event is recorded for every named target, changed or not
UpdateSuspicionsAlways(player, st, stmt, todo) ==
    IF todo = <<>> THEN st
    ELSE LET p == Head(todo)
             existing == ExistingSuspicion(st.knowledge, p)
             new == Clamp(existing + SuspicionChange(player, st.knowledge, stmt, p))
             next == IF p # player /\ p \in stmt.names
                     THEN [knowledge |->
                             Append(SelectSeq(st.knowledge, LAMBDA e : e.name # p),
                                    [name |-> p, result |-> "float", level |-> new]),
                           changes |->
                             Append(st.changes,
                                    [round |-> round,
                                     discussion_round |-> discussion_round,
                                     target |-> p, new_suspicion |-> new])]
                     ELSE st
         IN  UpdateSuspicionsAlways(player, next, stmt, Tail(todo))

RECURSIVE UpdateSuspicions(_, _, _, _)
\* "for p in alive_players: if p.name != player.name and p.name in statement":
\* the speaker's knowledge and the change events after the targets in `todo`
UpdateSuspicions(player, st, stmt, todo) ==
    IF todo = <<>> THEN st
    ELSE LET p == Head(todo)
             existing == ExistingSuspicion(st.knowledge, p)
             new == Clamp(existing + SuspicionChange(player, st.knowledge, stmt, p))
             next == IF p # player /\ p \in stmt.names /\ existing # new
                     THEN [knowledge |->
                             Append(SelectSeq(st.knowledge, LAMBDA e : e.name # p),
                                    [name |-> p, result |-> "float", level |-> new]),
                           changes |->
                             Append(st.changes,
                                    [round |-> round,
                                     discussion_round |-> discussion_round,
                                     target |-> p, new_suspicion |-> new])]
                     ELSE st
         IN  UpdateSuspicions(player, next, stmt, Tail(todo))

\* one pass of the speaker loop of a discussion round, for the speaker the
\* shuffle puts next
speak ==
    /\ pc = "discuss"
    /\ \E player \in day_alive \ spoken :
       \E statement \in call_api_statement(player, SeqOf(day_alive, Len(role))) :
          LET alive_players == SeqOf(day_alive, Len(role))
              upd == UpdateSuspicions(player,
                                      [knowledge |-> knowledge[player], changes |-> <<>>],
                                      statement, alive_players)
              current_targets == (statement.names \cap day_alive) \ {player}
              past_targets ==
                  {p \in day_alive \ {player} :
                     \E i \in 1..Len(statements[player]) : p \in statements[player][i].names}
              now_spoken == spoken \cup {player}
          IN  /\ statements' = [statements EXCEPT ![player] = Append(@, statement)]
              /\ knowledge' = [knowledge EXCEPT ![player] = upd.knowledge]
              /\ suspicion_changes' =
                   [suspicion_changes EXCEPT ![player] = @ \o upd.changes]
              /\ metrics' =
                   [metrics EXCEPT
                      !.total_discussion_statements = @ + 1,
                      !.seer_reveals =
                          IF role[player] = "Seer" /\ statement.seer_claim
                          THEN @ + 1 ELSE @,
                      !.werewolf_deceptions =
                          IF role[player] = "Werewolf"
                             /\ statement.names \cap Range(get_villagers) # {}
                          THEN @ + 1 ELSE @,
                      !.suspicion_changes = @ + Len(upd.changes),
                      !.statement_variety =
                          IF current_targets # {} /\ current_targets \cap past_targets = {}
                          THEN @ + 1 ELSE @]
              /\ IF now_spoken # day_alive
                 THEN /\ spoken' = now_spoken
                      /\ UNCHANGED <<pc, discussion_round>>
                 ELSE /\ spoken' = {}
                      /\ IF discussion_round < discussion_rounds
                         THEN discussion_round' = discussion_round + 1 /\ pc' = pc
                         ELSE discussion_round' = discussion_round /\ pc' = "vote"
    /\ UNCHANGED <<role, is_alive, last_protected, round, game_history,
                   day_alive, votes, night, win_result, metrics_file, oracle, engine>>

\* mutant: the voter's own name is accepted
RecordedVoteSelf(player, vote) ==
    IF vote = PassVote \/ vote \notin day_alive THEN PassVote ELSE vote

\* the vote recorded for a response: "Pass" unless it names another alive player
RecordedVote(player, vote) ==
    IF vote = PassVote \/ vote \notin (day_alive \ {player}) THEN PassVote ELSE vote

\* game_stage == "late"
LateGame(rnd) == rnd > 4

\* villager_accusations[other]: the statements of the alive non-Werewolves that
\* name the non-Werewolf `other` with the word suspect
VillagerAccusations(other) ==
    LET villagers == get_villagers
        Count(p) == Cardinality({i \in 1..Len(statements[p]) :
                                   /\ other \in statements[p][i].names
                                   /\ statements[p][i].suspect_lower})
        RECURSIVE Sum(_)
        Sum(k) == IF k = 0 THEN 0 ELSE Count(villagers[k]) + Sum(k - 1)
    IN  Sum(Len(villagers))

\* the late-game Werewolf voter finds a village consensus to join: the most
\* accused non-Werewolf is accused at least len(villagers) / 2 times
ConsensusToJoin(player) ==
    /\ role[player] = "Werewolf"
    /\ LateGame(round)
    /\ Len(get_werewolves) > 1
    /\ \E other \in {p \in day_alive : role[p] # "Werewolf"} :
          /\ VillagerAccusations(other) >= 1
          /\ \A o \in {p \in day_alive : role[p] # "Werewolf"} :
                VillagerAccusations(o) <= VillagerAccusations(other)
          /\ 2 * VillagerAccusations(other) >= Len(get_villagers)

\* the Werewolf's vote equals the votes of all the other alive Werewolves that
\* voted before it, and there is one
VotesWithTeam(player, vote, vs) ==
    LET others == {w \in Range(get_werewolves) : w # player /\ w \in DOMAIN vs}
    IN  /\ role[player] = "Werewolf"
        /\ Len(get_werewolves) > 1
        /\ others # {}
        /\ \A w \in others : vs[w] = vote

\* the texts the oracle gives to a vote prompt: "Pass" or a player's name, one
\* of oracle.about when the oracle speaks of those players only
VoteAnswers ==
    (IF oracle.about = {} THEN players ELSE oracle.about) \cup {PassVote}

\* one pass of the voting loop
cast_vote ==
    /\ pc = "vote"
    /\ \E player \in day_alive \ DOMAIN votes :
       \E response \in Respond("vote", player, SeqOf(day_alive, Len(role)),
                                VoteAnswers) :
          LET vote == RecordedVote(player, response)
              last_suspicions ==
                  {suspicion_changes[player][i].target :
                     i \in {j \in 1..Len(suspicion_changes[player]) :
                              suspicion_changes[player][j].round = round}}
              now_votes == (player :> vote) @@ votes
              joined == IF ConsensusToJoin(player) THEN 1 ELSE 0
          IN  /\ votes' = now_votes
              /\ metrics' =
                   IF vote = PassVote
                   THEN [metrics EXCEPT !.werewolf_team_coordination = @ + joined]
                   ELSE [metrics EXCEPT
                           !.total_votes = @ + 1,
                           !.votes_against_werewolves =
                               IF role[vote] = "Werewolf" THEN @ + 1 ELSE @,
                           !.vote_discussion_alignment =
                               IF vote \in last_suspicions THEN @ + 1 ELSE @,
                           !.werewolf_team_coordination =
                               @ + joined
                                 + (IF VotesWithTeam(player, vote, votes) THEN 1 ELSE 0)]
              /\ pc' = IF DOMAIN now_votes = day_alive THEN "tally" ELSE "vote"
    /\ UNCHANGED <<role, is_alive, last_protected, knowledge, statements,
                   suspicion_changes, round, game_history, discussion_round,
                   spoken, day_alive, night, win_result, metrics_file, oracle, engine>>

\* vote_counts[name]: the non-Pass votes a name received
VoteCount(vs, name) == Cardinality({v \in DOMAIN vs : vs[v] = name})

Voted(vs) == {vs[v] : v \in DOMAIN vs} \ {PassVote}

MaxVotes(vs) ==
    CHOOSE m \in 1..Cardinality(DOMAIN vs) :
        /\ \E name \in Voted(vs) : VoteCount(vs, name) = m
        /\ \A name \in Voted(vs) : VoteCount(vs, name) <= m

\* mutant: every voted name is a candidate
EliminatedAny(vs) == Voted(vs)

\* eliminated_candidates: the names that received max_votes
eliminated_candidates(vs) ==
    {name \in Voted(vs) : VoteCount(vs, name) = MaxVotes(vs)}

\* the first alive Seer of the day's alive_players, None without one
DaySeer(alive) ==
    IF \E p \in alive : role[p] = "Seer"
    THEN CHOOSE p \in alive : role[p] = "Seer" ELSE None

\* mutant: a day without a cast vote eliminates a player all the same
DayOutcomePassEliminates(vs, alive) ==
    {[dies |-> {e}, recorded |-> <<e>>, seer_correct |-> 0, consensus |-> 0] :
        e \in IF Voted(vs) = {} THEN alive ELSE eliminated_candidates(vs)}

\* mutant: the elimination is not written to the game history
DayOutcomeUnrecorded(vs, alive) ==
    IF Voted(vs) = {}
    THEN {[dies |-> {}, recorded |-> <<>>, seer_correct |-> 0, consensus |-> 0]}
    ELSE {[dies |-> {e}, recorded |-> <<>>, seer_correct |-> 0, consensus |-> 0] :
            e \in eliminated_candidates(vs)}

\* mutant: every name of a tie is eliminated
DayOutcomeAllTied(vs, alive) ==
    IF Voted(vs) = {}
    THEN {[dies |-> {}, recorded |-> <<>>, seer_correct |-> 0, consensus |-> 0]}
    ELSE {[dies |-> eliminated_candidates(vs),
           recorded |-> SeqOf(eliminated_candidates(vs), Len(role)),
           seer_correct |-> 0, consensus |-> 0]}

\* mutant: every eliminated Werewolf counts as a correct accusation of the Seer
DayOutcomeSeerAlways(vs, alive) ==
    IF Voted(vs) = {}
    THEN {[dies |-> {}, recorded |-> <<>>, seer_correct |-> 0, consensus |-> 0]}
    ELSE {[dies |-> {e}, recorded |-> <<e>>,
           seer_correct |-> IF role[e] = "Werewolf" THEN 1 ELSE 0,
           consensus |-> 0] : e \in eliminated_candidates(vs)}

\* the tally: who is eliminated (dies), the eliminations written to the game
\* history (recorded), the addition to seer_correct_accusations, and
\* consensus_level = max_votes / len(alive_players) in hundredths
DayOutcome(vs, alive) ==
    IF Voted(vs) = {}
    THEN {[dies |-> {}, recorded |-> <<>>, seer_correct |-> 0, consensus |-> 0]}
    ELSE {[dies |-> {e}, recorded |-> <<e>>,
           seer_correct |->
               IF /\ role[e] = "Werewolf"
                  /\ DaySeer(alive) # None
                  /\ vs[DaySeer(alive)] = e
               THEN 1 ELSE 0,
           consensus |-> (MaxVotes(vs) * 100) \div Cardinality(alive)] :
            e \in eliminated_candidates(vs)}

\* the tally and the elimination that end the day phase
tally ==
    /\ pc = "tally"
    /\ \E o \in DayOutcome(votes, day_alive) :
          /\ is_alive' = [p \in players |-> is_alive[p] /\ p \notin o.dies]
          /\ game_history' =
               game_history \o
                   [i \in 1..Len(o.recorded) |->
                       [phase |-> "Day", round |-> round,
                        name |-> o.recorded[i], saved |-> FALSE]]
          /\ metrics' =
               [metrics EXCEPT
                  !.village_consensus_rate = @ + o.consensus,
                  !.seer_correct_accusations = @ + o.seer_correct]
    /\ pc' = "day_check"
    /\ discussion_round' = 0
    /\ UNCHANGED <<role, last_protected, knowledge, statements, suspicion_changes,
                   round, spoken, day_alive, votes, night, win_result, metrics_file, oracle, engine>>

\* ---------------------------------------------------------------- rosters
\* the rosters of up to MaxPlayers players, with at most one Seer and one Medic
\* as in the CONFIG rosters
Rosters ==
    {r \in UNION {[1..n -> Roles] : n \in 0..MaxPlayers} :
        /\ Cardinality({p \in DOMAIN r : r[p] = "Seer"}) <= 1
        /\ Cardinality({p \in DOMAIN r : r[p] = "Medic"}) <= 1}

Wolves(r) == Cardinality({p \in DOMAIN r : r[p] = "Werewolf"})

\* the rosters of up to four players, for the games in which the oracle answers
SmallRosters == {r \in Rosters : Len(r) <= 4}

\* mutant: run() checks the win condition before the first night
InitGameChecked(rosters, profiles) ==
    /\ role \in rosters
    /\ oracle \in profiles
    /\ oracle.talkers \subseteq DOMAIN role
    /\ is_alive = [p \in DOMAIN role |-> TRUE]
    /\ last_protected = [p \in DOMAIN role |-> None]
    /\ knowledge = [p \in DOMAIN role |-> <<>>]
    /\ statements = [p \in DOMAIN role |-> <<>>]
    /\ suspicion_changes = [p \in DOMAIN role |-> <<>>]
    /\ round = 0
    /\ game_history = <<>>
    /\ metrics = [rounds_played |-> 0, winner |-> "None",
                  seer_correct_accusations |-> 0, total_seer_investigations |-> 0,
                  votes_against_werewolves |-> 0, total_votes |-> 0,
                  seer_reveals |-> 0, suspicion_changes |-> 0,
                  vote_discussion_alignment |-> 0, total_discussion_statements |-> 0,
                  statement_variety |-> 0, werewolf_deceptions |-> 0,
                  medic_successful_protections |-> 0,
                  werewolf_team_coordination |-> 0, village_consensus_rate |-> 0]
    /\ pc = "night_check"
    /\ discussion_round = 0
    /\ spoken = {}
    /\ day_alive = {}
    /\ votes = <<>>
    /\ night = NoNight
    /\ win_result = "None"
    /\ metrics_file = NoMetricsFile
    /\ engine = "game_optimized_2"

InitGame(rosters, profiles) ==
    /\ role \in rosters
    /\ oracle \in profiles
    /\ oracle.talkers \subseteq DOMAIN role
    /\ is_alive = [p \in DOMAIN role |-> TRUE]
    /\ last_protected = [p \in DOMAIN role |-> None]
    /\ knowledge = [p \in DOMAIN role |-> <<>>]
    /\ statements = [p \in DOMAIN role |-> <<>>]
    /\ suspicion_changes = [p \in DOMAIN role |-> <<>>]
    /\ round = 0
    /\ game_history = <<>>
    /\ metrics = [rounds_played |-> 0, winner |-> "None",
                  seer_correct_accusations |-> 0, total_seer_investigations |-> 0,
                  votes_against_werewolves |-> 0, total_votes |-> 0,
                  seer_reveals |-> 0, suspicion_changes |-> 0,
                  vote_discussion_alignment |-> 0, total_discussion_statements |-> 0,
                  statement_variety |-> 0, werewolf_deceptions |-> 0,
                  medic_successful_protections |-> 0,
                  werewolf_team_coordination |-> 0, village_consensus_rate |-> 0]
    /\ pc = "night"
    /\ discussion_round = 0
    /\ spoken = {}
    /\ day_alive = {}
    /\ votes = <<>>
    /\ night = NoNight
    /\ win_result = "None"
    /\ metrics_file = NoMetricsFile
    /\ engine = "game_optimized_2"

Profile(answers, talkers, about) ==
    [answers |-> answers, talkers |-> talkers, about |-> about, first |-> FALSE]

\* total oracle failure: every call returns ""
InitFail == InitGame(Rosters, {Profile({}, {}, {})})

\* the oracle answers the Werewolves' and the Medic's night prompts
InitNight == InitGame(SmallRosters, {Profile({"wolf", "medic"}, {}, {})})

\* the oracle answers the vote prompts
InitVote == InitGame(SmallRosters, {Profile({"vote"}, {}, {})})

TalkRosters ==
    {<<"Werewolf", "Seer", "Medic", "Villager">>,
     <<"Seer", "Werewolf", "Villager", "Medic">>,
     <<"Villager", "Medic", "Seer", "Werewolf">>}

\* the oracle answers the statement prompts of one player, who speaks about one
\* player
InitTalk ==
    InitGame(TalkRosters, {Profile({}, {t}, {a}) : t \in 1..4, a \in 1..4})

\* the oracle answers the Seer's night prompts and the statement prompts of the
\* Seer, who speaks about itself or about the Werewolf, in a roster in which the
\* Seer lives through two days
SuspicionRosters == {<<"Villager", "Villager", "Seer", "Werewolf", "Villager">>}

InitSuspicion ==
    InitGame(SuspicionRosters, {Profile({"seer"}, {3}, {3, 4})})

\* the oracle answers the Werewolves' night prompts and the statement prompts of
\* two players, who speak about a Werewolf, in a roster of two Werewolves
HuntRosters ==
    {<<"Werewolf", "Werewolf", "Villager", "Seer", "Villager", "Villager">>}

InitHunt == InitGame(HuntRosters, {Profile({"wolf"}, {4, 5}, {1})})

\* the oracle answers the vote prompts, with "Pass" or the name of one player,
\* and the statement prompts of one player, who speaks about that player
AlignRosters == {<<"Villager", "Werewolf", "Villager", "Villager", "Villager">>}

InitAlign == InitGame(AlignRosters, {Profile({"vote"}, {5}, {4})})

\* the seven players of the scenario, as listed
ScenarioPlayers ==
    <<"Werewolf", "Werewolf", "Seer", "Medic", "Villager", "Villager", "Villager">>

\* random.shuffle(roles): the assignments of the listed roles to the names,
\* those that move the roles of the first ShuffledNames names
ScenarioRosters ==
    {r \in [DOMAIN ScenarioPlayers -> Range(ScenarioPlayers)] :
        /\ \A x \in Range(ScenarioPlayers) :
              Cardinality({p \in DOMAIN r : r[p] = x})
                = Cardinality({p \in DOMAIN ScenarioPlayers : ScenarioPlayers[p] = x})
        /\ \A p \in DOMAIN r : p > ShuffledNames => r[p] = ScenarioPlayers[p]}

\* the oracle answers every prompt with the first alive candidate other than
\* the asking player
FirstCandidate ==
    [answers |-> {"wolf", "seer", "medic", "vote"},
     talkers |-> DOMAIN ScenarioPlayers, about |-> {}, first |-> TRUE]

InitScenario == InitGame(ScenarioRosters, {FirstCandidate})

\* a game of one of the earlier engines; the oracle answers the Werewolves' and
\* the Medic's night prompts and leaves the statement and vote prompts of the
\* day unanswered
EarlyEngines == {"game_2_rounds", "game_optimized_log"}

EarlyRosters ==
    {<<"Werewolf", "Seer", "Medic", "Villager">>,
     <<"Villager", "Werewolf", "Werewolf", "Seer", "Medic">>}

InitEarly ==
    /\ role \in EarlyRosters
    /\ oracle = Profile({"wolf", "medic"}, {}, {})
    /\ oracle.talkers \subseteq DOMAIN role
    /\ is_alive = [p \in DOMAIN role |-> TRUE]
    /\ last_protected = [p \in DOMAIN role |-> None]
    /\ knowledge = [p \in DOMAIN role |-> <<>>]
    /\ statements = [p \in DOMAIN role |-> <<>>]
    /\ suspicion_changes = [p \in DOMAIN role |-> <<>>]
    /\ round = 0
    /\ game_history = <<>>
    /\ metrics = [rounds_played |-> 0, winner |-> "None",
                  seer_correct_accusations |-> 0, total_seer_investigations |-> 0,
                  votes_against_werewolves |-> 0, total_votes |-> 0,
                  seer_reveals |-> 0, suspicion_changes |-> 0,
                  vote_discussion_alignment |-> 0, total_discussion_statements |-> 0,
                  statement_variety |-> 0, werewolf_deceptions |-> 0,
                  medic_successful_protections |-> 0,
                  werewolf_team_coordination |-> 0, village_consensus_rate |-> 0]
    /\ pc = "night"
    /\ discussion_round = 0
    /\ spoken = {}
    /\ day_alive = {}
    /\ votes = <<>>
    /\ night = NoNight
    /\ win_result = "None"
    /\ metrics_file = NoMetricsFile
    /\ engine \in EarlyEngines

Init ==
    \/ InitFail \/ InitNight \/ InitVote \/ InitTalk
    \/ InitSuspicion \/ InitHunt \/ InitAlign \/ InitScenario

Next ==
    \/ night_phase
    \/ check_after_night
    \/ day_start
    \/ speak
    \/ cast_vote
    \/ tally
    \/ check_after_day

Spec == Init /\ [][Next]_vars

\* run() of the earlier engines. With the day's prompts unanswered their day
\* phase appends the empty statements, records every vote as "Pass" and
\* eliminates nobody, like the day phase of game_optimized_2, and their win
\* check is the same
NextEarly ==
    \/ night_phase_early
    \/ check_after_night
    \/ day_start
    \/ speak
    \/ cast_vote
    \/ tally
    \/ check_after_day

SpecEarly == InitEarly /\ [][NextEarly]_vars
SpecFail == InitFail /\ [][Next]_vars
SpecNight == InitNight /\ [][Next]_vars
SpecVote == InitVote /\ [][Next]_vars
SpecTalk == InitTalk /\ [][Next]_vars
SpecSuspicion == InitSuspicion /\ [][Next]_vars
SpecHunt == InitHunt /\ [][Next]_vars
SpecAlign == InitAlign /\ [][Next]_vars
\* run() executes its phases one after the other without waiting
SpecScenario == InitScenario /\ [][Next]_vars /\ WF_vars(Next)

\* total oracle failure, for the rosters with a Werewolf; the program runs on: a
\* step that can be taken is eventually taken
InitFailWolves == InitFail /\ Wolves(role) >= 1
LiveFail == InitFailWolves /\ [][Next]_vars /\ WF_vars(Next)

\* ================================================================ claims
AliveW == Cardinality({p \in players : is_alive[p] /\ role[p] = "Werewolf"})
AliveV == Cardinality({p \in players : is_alive[p] /\ role[p] # "Werewolf"})
Dead == {p \in players : ~is_alive[p]}
LastHistory == game_history[Len(game_history)]

\* C1: the win check returns exactly one of None, Villagers win, Werewolves
\* win: Villagers win iff no Werewolf is alive, otherwise Werewolves win iff
\* the alive Werewolves are at least as many as the alive others, otherwise
\* None.  (win_result is read where the alive sets are those the check saw.)
C1_WinCheckRule ==
    (pc \in {"day", "done"} \/ (pc = "night" /\ round > 0)) =>
        /\ win_result \in {"None", "Villagers win!", "Werewolves win!"}
        /\ (win_result = "Villagers win!") <=> (AliveW = 0)
        /\ (win_result = "Werewolves win!") <=> (AliveW > 0 /\ AliveW >= AliveV)
        /\ (win_result = "None") <=> (AliveW > 0 /\ AliveW < AliveV)

\* C1 witness: a game that ended on equal numbers of Werewolves and others
C1_Witness ==
    pc = "done" /\ win_result = "Werewolves win!" /\ AliveW = AliveV /\ AliveW > 0

\* C2: run() goes Night, win check, Day, win check, repeated: a day phase
\* starts only from the win check after the night of the same round, and only
\* when that check found no winner; a night phase starts only at the start of
\* the game or from a win check after a day that found no winner; a win check
\* that finds a winner ends the loop, and nothing runs after it.
C2_PhaseOrder ==
    [][
        /\ pc # "done"
        /\ (pc = "night") => (pc' \in {"night_check", "error"} /\ round' = round + 1)
        /\ (pc' = "night_check") => (pc = "night")
        /\ (pc' = "day") =>
              /\ pc = "night_check"
              /\ check_win_condition = "None"
              /\ LastHistory.phase = "Night" /\ LastHistory.round = round
              /\ round' = round
        /\ (pc' = "night") => (pc = "day_check" /\ check_win_condition = "None")
        /\ (pc \in {"night_check", "day_check"} /\ check_win_condition # "None")
              => pc' = "done"
        /\ (pc' = "done") =>
              (pc \in {"night_check", "day_check"} /\ check_win_condition # "None")
        /\ (pc' = "day_check") => (pc = "tally")
        /\ (pc = "day") => (pc' \in {"discuss", "vote"})
      ]_vars

\* C2 witness: a game that ended at the win check after the day of round 2
C2_Witness ==
    /\ pc = "done" /\ round = 2
    /\ LastHistory.phase = "Day"

HasFact(kn, t, v) == \E i \in 1..Len(kn) : kn[i].name = t /\ kn[i].result = v

\* C3: an investigation fact (Werewolf / Not a Werewolf) the Seer's belief map
\* holds for a target is still there, with its value, after every step
C3_SeerFactsKept ==
    [][\A p \in players, t \in players, v \in {"Werewolf", "Not a Werewolf"} :
         (role[p] = "Seer" /\ HasFact(knowledge[p], t, v))
            => HasFact(knowledge'[p], t, v)]_vars

\* C4: under total oracle failure no phase raises and, for a roster with a
\* Werewolf, the game eventually ends with a winner
C4_FailureTerminates ==
    <>(pc = "done" /\ metrics.winner # "None")

\* C4 witness: a game under total failure that ended after the Medic's random
\* fallback saved the victim once and a later night killed a player
C4_Witness ==
    /\ oracle.answers = {} /\ oracle.talkers = {}
    /\ Wolves(role) >= 1
    /\ pc = "done" /\ metrics.winner = "Werewolves win!"
    /\ metrics.medic_successful_protections >= 1
    /\ round >= 3

\* C5 (as claimed): the game is over within playerCount rounds
C5_RoundsWithinPlayerCount == round <= Len(role)

\* C5 (amended): for a roster of at least one player, the rounds played never
\* exceed playerCount plus the number of nights in which the Medic saved the
\* victim
C5_RoundsWithinPlayerCountPlusSaves ==
    (Len(role) >= 1) => round <= Len(role) + metrics.medic_successful_protections

\* C5 witness: a game that went past playerCount rounds before it ended
C5_Witness ==
    /\ pc = "done" /\ round > Len(role)
    /\ metrics.medic_successful_protections >= 1

\* C6: the Werewolves' victim is alive at the start of the night and is no
\* Werewolf, whatever the oracle answered
C6_VictimAliveNonWerewolf ==
    (pc = "night_check" /\ night.victim # None) =>
        /\ night.victim \in night.alive
        /\ role[night.victim] # "Werewolf"

\* C6 witness: the oracle named a dead player, and one named a Werewolf, and a
\* victim was chosen all the same
C6_Witness ==
    /\ pc = "night_check" /\ night.victim # None
    /\ night.victim_name \in players
    /\ \/ night.victim_name \notin night.alive
       \/ role[night.victim_name] = "Werewolf"

\* C7: a night in which the Medic protected the selected victim kills nobody
\* and adds 1 to medic_successful_protections; otherwise the selected victim
\* dies and the counter keeps its value; without a victim nobody dies
C7_NightResolution ==
    [][pc' = "night_check" =>
         LET v == night'.victim
             saves == metrics.medic_successful_protections
             saves_after == metrics'.medic_successful_protections
         IN  IF v # None /\ v = night'.protected
             THEN is_alive' = is_alive /\ saves_after = saves + 1
             ELSE IF v # None
             THEN /\ is_alive[v]
                  /\ is_alive' = [is_alive EXCEPT ![v] = FALSE]
                  /\ saves_after = saves
             ELSE is_alive' = is_alive /\ saves_after = saves]_vars

\* C7 witness: a second save, after a night that killed
C7_Witness ==
    /\ pc = "night_check"
    /\ night.victim # None /\ night.victim = night.protected
    /\ metrics.medic_successful_protections = 2
    /\ Dead # {}

\* C8: in a night that follows one in which the Medic protected, the Medic's
\* protected player differs from the one of the night before
C8_NoRepeatedProtection ==
    [][(pc' = "night_check" /\ night'.medic # None
           /\ last_protected[night'.medic] # None) =>
         /\ night'.protected # None
         /\ night'.protected # last_protected[night'.medic]
         /\ last_protected'[night'.medic] # last_protected[night'.medic]]_vars

\* C8 witness: a later night in which the oracle's answer was not taken and
\* the fallback chose the protected player
C8_Witness ==
    /\ pc = "night_check" /\ round >= 2
    /\ night.medic # None /\ night.protected # None
    /\ night.protected_name # night.protected

\* C9: when the votes of a day are in, every player alive at the start of the
\* day has one recorded vote, "Pass" or another player alive at the start of
\* that day
C9_VotesValid ==
    /\ (pc \in {"vote", "tally"}) => day_alive = {p \in players : is_alive[p]}
    /\ (pc = "vote") => DOMAIN votes \subseteq day_alive
    /\ (pc \in {"tally", "day_check"}) =>
          /\ DOMAIN votes = day_alive
          /\ \A v \in DOMAIN votes :
                \/ votes[v] = PassVote
                \/ (votes[v] \in day_alive /\ votes[v] # v)

\* C9 witness: the votes of a day after a death, some Pass and some cast
C9_Witness ==
    /\ pc = "tally" /\ Dead # {}
    /\ \E v \in DOMAIN votes : votes[v] = PassVote
    /\ \E v \in DOMAIN votes : votes[v] # PassVote

\* the votes a name received, counted for the claims apart from the tally
Received(name) == Cardinality({v \in DOMAIN votes : votes[v] = name})

\* C10: after the tally of a day in which a vote was cast, exactly one of the
\* players alive at the start of the day is dead, and no voted name received
\* more votes than that player
C10_EliminatedHasMaxVotes ==
    (pc = "day_check" /\ \E v \in DOMAIN votes : votes[v] # PassVote) =>
        \E e \in day_alive :
            /\ day_alive \cap Dead = {e}
            /\ Received(e) >= 1
            /\ \A name \in day_alive : Received(name) <= Received(e)

\* C10 witness: a tie of two names, broken in favour of the second
C10_Witness ==
    /\ pc = "day_check"
    /\ \E e \in day_alive \cap Dead :
       \E other \in day_alive :
          other < e /\ Received(other) = Received(e) /\ Received(e) >= 1

Alive == {p \in players : is_alive[p]}
AllPass == \A v \in DOMAIN votes : votes[v] = PassVote
DayEntries(r) ==
    {i \in 1..Len(game_history) :
        game_history[i].phase = "Day" /\ game_history[i].round = r}

\* C11: after a day phase in which every recorded vote is "Pass", the alive
\* players are those alive at the start of the day and the game history holds
\* no elimination of that day
C11_AllPassNoElimination ==
    (pc = "day_check" /\ AllPass) =>
        /\ Alive = day_alive
        /\ DayEntries(round) = {}

\* C11 witness: a day of all-Pass votes, after a day that eliminated a player
C11_Witness ==
    /\ pc = "day_check" /\ AllPass /\ Cardinality(DOMAIN votes) >= 2
    /\ round = 2 /\ DayEntries(1) # {}

\* the deaths the game history records: night kills and day eliminations
RecordedDeaths ==
    Cardinality({i \in 1..Len(game_history) : game_history[i].name # None})

\* C12: the alive Werewolves plus the alive others are the initial players
\* minus the deaths recorded so far
C12_AliveCountBalance ==
    AliveW + AliveV = Len(role) - RecordedDeaths

\* C12 witness: after a night kill and a day elimination
C12_Witness ==
    /\ pc = "day_check" /\ RecordedDeaths >= 2
    /\ \E i, j \in 1..Len(game_history) :
          /\ game_history[i].phase = "Night" /\ game_history[i].name # None
          /\ game_history[j].phase = "Day"

\* C13: no step brings a player back, a night phase removes at most one player
\* and a whole day phase removes at most one of the players alive at its start
C13_AtMostOneRemoved ==
    [][/\ \A p \in players : is_alive'[p] => is_alive[p]
       /\ (pc = "night") => Cardinality(Alive \ {p \in players : is_alive'[p]}) <= 1
       /\ (pc' = "day_check") =>
             Cardinality(day_alive' \ {p \in players : is_alive'[p]}) <= 1]_vars

\* C13 witness: a day that eliminated one of two tied players, in a round
\* whose night had killed one
C13_Witness ==
    /\ pc = "day_check" /\ Cardinality(day_alive \ Alive) = 1
    /\ Cardinality(eliminated_candidates(votes)) = 2
    /\ \E i \in 1..Len(game_history) :
          /\ game_history[i].phase = "Night" /\ game_history[i].round = round
          /\ game_history[i].name # None

\* C20: the tally adds exactly 1 to seer_correct_accusations when the
\* eliminated player is a Werewolf and the Seer alive at the start of the day
\* recorded its vote for that player, and nothing otherwise; no other step of
\* the day changes the counter
C20_SeerCorrectAccusation ==
    [][LET before == metrics.seer_correct_accusations
           after == metrics'.seer_correct_accusations
           out == day_alive \ {p \in players : is_alive'[p]}
           correct == \E e \in out, seer \in day_alive :
                         /\ role[e] = "Werewolf"
                         /\ role[seer] = "Seer"
                         /\ votes[seer] = e
       IN  IF pc = "tally" /\ correct THEN after = before + 1 ELSE after = before]_vars

\* C20 witness: a Werewolf eliminated with the Seer's vote among those cast
\* against it
C20_Witness ==
    /\ pc = "day_check" /\ metrics.seer_correct_accusations = 1
    /\ \E e \in day_alive \ Alive, seer \in day_alive :
          role[e] = "Werewolf" /\ role[seer] = "Seer" /\ votes[seer] = e

\* C19: the metrics summary written at the end of a game holds no faulted
\* ratio, and every ratio whose denominator counter is 0 is 0: without a cast
\* vote voting_accuracy and vote_discussion_alignment are 0, without an
\* investigation seer_accuracy is 0
C19_ZeroDenominatorRatios ==
    /\ (pc = "error") => ~metrics_file.written
    /\ (pc = "done") =>
          /\ metrics_file.written
          /\ Raised \notin Ratios(metrics_file)
          /\ (metrics.total_votes = 0) =>
                /\ metrics_file.voting_accuracy = 0
                /\ metrics_file.vote_discussion_alignment = 0
          /\ (metrics.total_seer_investigations = 0) =>
                metrics_file.seer_accuracy = 0
          /\ (metrics.total_discussion_statements = 0) =>
                /\ metrics_file.deception_rate = 0
                /\ metrics_file.suspicion_change_rate = 0
                /\ metrics_file.statement_variety_rate = 0
          /\ (metrics.rounds_played = 0) =>
                /\ metrics_file.seer_reveal_rate = 0
                /\ metrics_file.team_coordination = 0
                /\ metrics_file.consensus_rate = 0

\* C19 witness: a game that ended after a day, without a cast vote and without
\* an investigation
C19_Witness ==
    /\ pc = "done" /\ metrics_file.written
    /\ metrics.total_votes = 0 /\ metrics.total_seer_investigations = 0
    /\ metrics.total_discussion_statements > 0
    /\ "vote" \in oracle.answers

FloatEntries(p) == {i \in 1..Len(knowledge[p]) : knowledge[p][i].result = "float"}

\* C14: every suspicion score of every belief map is within [0.0, 1.0]
C14_SuspicionWithinBounds ==
    \A p \in players : \A i \in FloatEntries(p) :
        knowledge[p][i].level >= 0 /\ knowledge[p][i].level <= 100

\* C14 witness: a score of 0.8 raised to 1.0, by a step whose sum was above
\* 1.0, after a defense
C14_Witness ==
    \E p \in players :
        /\ \E i \in FloatEntries(p) : knowledge[p][i].level = 100
        /\ Len(suspicion_changes[p]) >= 2
        /\ suspicion_changes[p][Len(suspicion_changes[p]) - 1].new_suspicion = 80
        /\ suspicion_changes[p][Len(suspicion_changes[p])].new_suspicion = 100
        /\ \E k \in 1..Len(statements[p]) : statements[p][k].defends

\* C15: no belief map holds an entry, fact or score, about its own player
C15_NoBeliefAboutSelf ==
    \A p \in players : \A i \in 1..Len(knowledge[p]) : knowledge[p][i].name # p

\* C15 witness: the Seer accused itself in a statement of the day before, and
\* this night the oracle named the Seer as its own target
C15_Witness ==
    /\ pc = "night_check" /\ round = 2
    /\ night.seer # None /\ night.target_name = night.seer /\ night.target # None
    /\ \E k \in 1..Len(statements[night.seer]) :
          /\ night.seer \in statements[night.seer][k].names
          /\ statements[night.seer][k].accuses

\* C16 (as claimed): for a roster without a player no game state is created
\* and no phase runs
C16_EmptyRosterRunsNothing ==
    (Len(role) = 0) =>
        /\ round = 0 /\ game_history = <<>>
        /\ pc = "night" /\ ~metrics_file.written

\* C17: no phase of a started game raises, whatever the oracle answers
C17_NoPhaseRaises == pc # "error"

\* C17 witness: a night in which the oracle named a Werewolf as the victim,
\* gave no name to the Seer and named a dead player to the Medic, and in which
\* a victim, a target and a protected player were chosen all the same
C17_Witness ==
    /\ pc = "night_check" /\ round >= 2
    /\ night.victim_name \in players /\ role[night.victim_name] = "Werewolf"
    /\ night.victim # None
    /\ night.seer # None /\ night.target_name = None /\ night.target # None
    /\ night.medic # None /\ night.protected_name \in players \ night.alive
    /\ night.protected # None

\* C18: a failed call hands "" to its caller and the decision is the one of
\* the fallback policy: the night goes on to its win check with the fallback's
\* victim, target and protected player, in one pass; a failed vote call
\* records "Pass" and changes nothing else; a failed statement call changes
\* no belief; the game ends only at a win check
C18_FailedCallFallsBack ==
    [][/\ pc' # "error"
       /\ (pc' = "done") => (pc \in {"night_check", "day_check"})
       /\ (pc = "night") =>
             /\ pc' = "night_check" /\ round' = round + 1
             /\ ("wolf" \notin oracle.answers) => night'.victim_name = None
             /\ ("seer" \notin oracle.answers) => night'.target_name = None
             /\ ("medic" \notin oracle.answers) => night'.protected_name = None
             /\ (night'.victim_name = None) => night'.victim \in WerewolfVictim(None)
             /\ (night'.target_name = None) => night'.target \in SeerTarget(None)
             /\ (night'.protected_name = None) =>
                   night'.protected \in MedicProtected(None, round + 1)
       /\ (pc = "vote" /\ "vote" \notin oracle.answers) =>
             /\ Cardinality(DOMAIN votes') = Cardinality(DOMAIN votes) + 1
             /\ \A v \in DOMAIN votes' \ DOMAIN votes : votes'[v] = PassVote
             /\ pc' \in {"vote", "tally"}
             /\ UNCHANGED <<is_alive, knowledge, round, metrics, game_history,
                            last_protected>>
       /\ (pc = "discuss" /\ oracle.talkers = {}) =>
             /\ \E p \in day_alive : statements' =
                                        [statements EXCEPT ![p] = Append(@, Silent)]
             /\ UNCHANGED <<is_alive, knowledge, round, game_history,
                            last_protected, suspicion_changes>>]_vars

\* C18 witness: a night after a day of failed vote calls, in which the
\* Werewolves' call failed and the Medic's call was answered
C18_Witness ==
    /\ pc = "night_check" /\ round >= 2
    /\ night.victim_name = None /\ night.victim # None
    /\ night.seer # None /\ night.target_name = None /\ night.target # None
    /\ night.medic # None /\ night.protected_name = night.protected

TrueResult(t) == IF role[t] = "Werewolf" THEN "Werewolf" ELSE "Not a Werewolf"

\* C21: a night's investigation targets a player alive at the start of the
\* night other than the Seer and appends the fact of the target's true role
\* to the Seer's belief map; every fact a belief map holds names the true role
C21_InvestigationTruthful ==
    [][/\ (pc' = "night_check" /\ night'.target # None) =>
             /\ night'.seer \in Alive /\ role[night'.seer] = "Seer"
             /\ night'.target \in Alive /\ night'.target # night'.seer
             /\ knowledge'[night'.seer] =
                   Append(knowledge[night'.seer],
                          [name |-> night'.target,
                           result |-> TrueResult(night'.target), level |-> 0])
       /\ \A p \in players : \A i \in 1..Len(knowledge'[p]) :
             (knowledge'[p][i].result # "float") =>
                 /\ role[p] = "Seer"
                 /\ knowledge'[p][i].result = TrueResult(knowledge'[p][i].name)]_vars

\* C21 witness: the Seer holds a Werewolf fact and a Not-a-Werewolf fact, the
\* later one about a player the oracle named
C21_Witness ==
    /\ pc = "night_check" /\ night.seer # None
    /\ night.target # None /\ night.target_name = night.target
    /\ HasFact(knowledge[night.seer], night.target, "Werewolf")
    /\ \E t \in players : HasFact(knowledge[night.seer], t, "Not a Werewolf")

Entries(kn) == {kn[i].name : i \in 1..Len(kn)}
Facts(kn) == {kn[i].name : i \in {j \in 1..Len(kn) : kn[j].result # "float"}}

\* C22 (as claimed): on a night on which an alive player other than the Seer
\* was never investigated (the Seer's belief map has no entry for it), the
\* player investigated is not one the Seer holds an investigation fact about
C22_InvestigatesOnlyNew ==
    [][(/\ pc' = "night_check" /\ night'.target # None
        /\ (Alive \ {night'.seer}) \ Entries(knowledge[night'.seer]) # {})
          => night'.target \notin Facts(knowledge[night'.seer])]_vars

\* the positions of the priority list that hold an alive non-Werewolf
ValidPositions(list) ==
    {i \in 1..Len(list) : is_alive[list[i][1]] /\ role[list[i][1]] # "Werewolf"}

\* C23: when Werewolves are alive and the response names no alive player or
\* names a Werewolf, the victim is the entry of the priority list that has the
\* highest score among the alive non-Werewolves of the list and comes first
\* among those of that score; only a list without such an entry leaves the
\* choice to a random alive non-Werewolf
C23_FallbackVictim ==
    [][(/\ pc' = "night_check" /\ get_werewolves # <<>>
        /\ \/ night'.victim_name \notin Alive
           \/ role[night'.victim_name] = "Werewolf") =>
         LET list == WerewolfKeyTargets
             valid == ValidPositions(list)
         IN  IF valid # {}
             THEN \E i \in valid :
                     /\ night'.victim = list[i][1]
                     /\ \A j \in valid : list[j][2] <= list[i][2]
                     /\ \A j \in valid : (j < i) => list[j][2] < list[i][2]
             ELSE night'.victim \in NonWolvesAlive \cup {None}]_vars

\* C23 witness: the oracle named a Werewolf; two players had claimed a role,
\* and the victim is the first of them although it is not the first alive
\* non-Werewolf of the roster
C23_Witness ==
    /\ pc = "night_check" /\ round = 2
    /\ night.victim_name \in night.alive /\ role[night.victim_name] = "Werewolf"
    /\ night.victim # None
    /\ \E first \in night.alive :
          first < night.victim /\ role[first] # "Werewolf"
    /\ \E k \in 1..Len(statements[night.victim]) :
          statements[night.victim][k].seer_claim
    /\ \E other \in night.alive :
          /\ other > night.victim
          /\ \E k \in 1..Len(statements[other]) : statements[other][k].seer_claim

\* the delta the claim gives a statement of `speaker` for the named target p
ClaimedDelta(speaker, stmt, p) ==
    IF role[speaker] = "Seer" /\ HasFact(knowledge[speaker], p, "Werewolf") THEN 50
    ELSE IF stmt.accuses THEN 25
    ELSE IF stmt.defends THEN 0 - 20
    ELSE 0

\* C24 (as claimed): after a statement, for every other alive player it names,
\* whatever the letter case of the name, the speaker's score for that player
\* is the old score plus the delta of the statement (+0.25 accusation, -0.2
\* defense, +0.5 Seer holding a Werewolf fact), clamped to [0, 1]
C24_LexicalDeltaAnyCase ==
    [][\A speaker \in players :
         (pc = "discuss" /\ statements'[speaker] # statements[speaker]) =>
            LET stmt == statements'[speaker][Len(statements'[speaker])]
            IN  \A p \in (stmt.names \cap day_alive) \ {speaker} :
                   ExistingSuspicion(knowledge'[speaker], p) =
                       Max2(0, Min2(100, ExistingSuspicion(knowledge[speaker], p)
                                           + ClaimedDelta(speaker, stmt, p)))]_vars

RECURSIVE EventsUpTo(_)
\* the change events recorded for the players 1..n
EventsUpTo(n) == IF n = 0 THEN 0 ELSE Len(suspicion_changes[n]) + EventsUpTo(n - 1)

\* C25: the suspicion_changes counter is the number of recorded events of all
\* players, and a step records an event for a target exactly when the score
\* held for that target changes, the event carrying the new score
C25_EventOnlyOnChange ==
    [][/\ metrics'.suspicion_changes = EventsUpTo(Len(role))'
       /\ \A sp \in players :
            LET old == suspicion_changes[sp]
                new == suspicion_changes'[sp]
                added == {i \in 1..Len(new) : i > Len(old)}
            IN  /\ Len(new) >= Len(old)
                /\ \A i \in added :
                      /\ new[i].new_suspicion # ExistingSuspicion(knowledge[sp], new[i].target)
                      /\ new[i].new_suspicion = ExistingSuspicion(knowledge'[sp], new[i].target)
                      /\ new[i].round = round
                /\ \A t \in players :
                      (ExistingSuspicion(knowledge'[sp], t) # ExistingSuspicion(knowledge[sp], t))
                          => \E i \in added : new[i].target = t]_vars

\* C25 witness: a player whose two statements named the same other player,
\* the first raising its score with an event and the second leaving the score
\* as it was, without one
C25_Witness ==
    \E sp \in players :
        /\ Len(suspicion_changes[sp]) = 1 /\ metrics.suspicion_changes = 1
        /\ Len(statements[sp]) = 2
        /\ \E t \in (statements[sp][1].names \cap statements[sp][2].names) \ {sp} :
              /\ suspicion_changes[sp][1].target = t
              /\ suspicion_changes[sp][1].discussion_round = 1
              /\ ExistingSuspicion(knowledge[sp], t) =
                     suspicion_changes[sp][1].new_suspicion

\* the score an event replaced: the new value of the player's event before it
\* for the same target, 0.0 without one
ScoreBefore(changes, i) ==
    LET earlier == {j \in 1..(i - 1) : changes[j].target = changes[i].target}
    IN  IF earlier = {} THEN 0
        ELSE changes[CHOOSE j \in earlier : \A k \in earlier : k <= j].new_suspicion

\* the targets for which the voter's suspicion increased in the discussion of
\* round r
IncreasedTargets(voter, r) ==
    LET changes == suspicion_changes[voter]
    IN  {changes[i].target :
           i \in {j \in 1..Len(changes) :
                    /\ changes[j].round = r
                    /\ changes[j].new_suspicion > ScoreBefore(changes, j)}}

NightEntries == {i \in 1..Len(game_history) : game_history[i].phase = "Night"}

\* C27: the round number starts at 0, a night phase adds exactly 1 to it and no
\* other step changes it, and rounds_played is the number of night phases run
C27_RoundCountsNights ==
    /\ round = 0 /\ metrics.rounds_played = 0
    /\ [](metrics.rounds_played = round)
    /\ [](pc # "error" => Cardinality(NightEntries) = round)
    /\ [][IF pc = "night" THEN round' = round + 1 ELSE round' = round]_vars

C27_Witness ==
    /\ pc = "done" /\ round = 2 /\ metrics.rounds_played = 2
    /\ Cardinality(NightEntries) = 2
    /\ \E i \in 1..Len(game_history) : game_history[i].phase = "Day"

\* C30: in a night the Seer and the Medic alive at its start act whoever the
\* victim is, and the death comes last: the Seer's investigation is recorded
\* and counted, the Medic's choice is recorded, the victim survives exactly
\* when it is the protected player (a Medic protecting itself included), and
\* nobody but the victim dies
C30_DeathAfterAllActions ==
    [][(pc = "night" /\ pc' = "night_check") =>
         LET seer == FirstAlive("Seer")
             medic == FirstAlive("Medic")
             victim == night'.victim
             target == night'.target
             protected == night'.protected
         IN  /\ (seer # None /\ Len(get_alive_players) > 1) =>
                   /\ target \in Range(get_alive_players) \ {seer}
                   /\ knowledge'[seer] = Append(knowledge[seer], Fact(target))
                   /\ metrics'.total_seer_investigations =
                          metrics.total_seer_investigations + 1
             /\ medic # None =>
                   /\ protected \in Range(get_alive_players)
                   /\ last_protected'[medic] = protected
             /\ victim # None =>
                   /\ is_alive[victim]
                   /\ is_alive'[victim] <=> (victim = protected)
                   /\ metrics'.medic_successful_protections =
                          metrics.medic_successful_protections
                            + (IF victim = protected THEN 1 ELSE 0)
             /\ \A p \in players \ {victim} : is_alive'[p] = is_alive[p]]_vars

\* the Seer was the victim of night 1 and investigated in it; in night 2 the
\* Medic is the victim, protects itself and lives
C30_Witness ==
    /\ pc = "night_check" /\ round = 2
    /\ night.medic # None
    /\ night.victim = night.medic /\ night.protected = night.medic
    /\ is_alive[night.medic]
    /\ \E seer \in players :
          /\ role[seer] = "Seer" /\ ~is_alive[seer]
          /\ game_history[1].phase = "Night" /\ game_history[1].name = seer
          /\ Len(knowledge[seer]) = 1

\* the night victims and day eliminations so far, in order (None: a night in
\* which nobody died)
Outcomes ==
    [i \in 1..Len(game_history) |-> <<game_history[i].phase, game_history[i].name>>]

\* the outcomes of the scenario when the roles stay as listed
ListedOutcomes == <<<<"Night", 3>>, <<"Day", 1>>, <<"Night", 4>>, <<"Day", 2>>>>

RECURSIVE StatementsOf(_)
\* the statements retained for the players 1..n
StatementsOf(n) == IF n = 0 THEN 0 ELSE Len(statements[n]) + StatementsOf(n - 1)

\* C31: a day runs discussion_rounds discussion rounds before any vote, and in
\* each of them every player alive at the start of the day speaks exactly once:
\* no vote exists during the discussion, a speaker of the current round is an
\* alive player that has not spoken in it and gets one more retained statement,
\* when the votes are collected every such player has discussion_rounds
\* statements per day it lived, and total_discussion_statements counts them all
C31_EveryoneSpeaksEachRound ==
    /\ [](pc = "discuss" =>
            /\ votes = <<>>
            /\ discussion_round \in 1..discussion_rounds
            /\ spoken \subseteq day_alive
            /\ \A p \in day_alive :
                  Len(statements[p]) =
                      discussion_rounds * (round - 1) + (discussion_round - 1)
                        + (IF p \in spoken THEN 1 ELSE 0))
    /\ [](pc \in {"vote", "tally"} =>
            \A p \in day_alive : Len(statements[p]) = discussion_rounds * round)
    /\ [](metrics.total_discussion_statements = StatementsOf(Len(role)))
    /\ [][(pc = "discuss") =>
            \E p \in day_alive \ spoken :
               /\ is_alive[p]
               /\ Len(statements'[p]) = Len(statements[p]) + 1
               /\ \A q \in players \ {p} : statements'[q] = statements[q]
               /\ metrics'.total_discussion_statements =
                      metrics.total_discussion_statements + 1]_vars
    /\ [][(pc # "discuss") => statements' = statements]_vars

\* the votes of the second day are about to be collected: the players alive
\* that day have spoken discussion_rounds times on each day, a player that
\* died after the first day on that day only
C31_Witness ==
    /\ pc = "vote" /\ round = 2 /\ votes = <<>>
    /\ Cardinality(day_alive) >= 2
    /\ \A p \in day_alive : Len(statements[p]) = 2 * discussion_rounds
    /\ \E p \in players \ day_alive : Len(statements[p]) = discussion_rounds
    /\ metrics.total_discussion_statements > 2 * discussion_rounds

\* C32: a dead player stays dead and takes no part in any later phase: the
\* night victim, the Seer's target and the Medic's choice are alive when the
\* night starts, a speaker and a voter are alive, a recorded vote is "Pass" or
\* names an alive player, and only an alive player is eliminated
C32_DeadPlayersInert ==
    /\ [][\A p \in players : ~is_alive[p] => ~is_alive'[p]]_vars
    /\ [][(pc = "night" /\ pc' = "night_check") =>
            \A x \in {night'.victim, night'.target, night'.protected} \ {None} :
               is_alive[x]]_vars
    /\ [][(pc = "discuss") =>
            \A p \in players : statements'[p] # statements[p] => is_alive[p]]_vars
    /\ [][(pc = "vote") =>
            \A p \in DOMAIN votes' \ DOMAIN votes :
               /\ is_alive[p]
               /\ votes'[p] # PassVote => is_alive[votes'[p]]]_vars
    /\ [][(pc = "tally") =>
            \A p \in players : (is_alive[p] /\ ~is_alive'[p]) => p \in Voted(votes)]_vars

\* the votes of the second day are in: a player that died before this day has
\* neither voted nor been voted for, and an alive player has been voted for
C32_Witness ==
    /\ pc = "tally" /\ round = 2
    /\ Voted(votes) # {}
    /\ \E p \in players :
          /\ ~is_alive[p]
          /\ p \notin DOMAIN votes /\ p \notin Voted(votes)
          /\ Len(statements[p]) = discussion_rounds

\* no win predicate holds
NoWinner ==
    /\ Len(get_werewolves) >= 1
    /\ Len(get_werewolves) < Len(get_villagers)

\* C33: a day phase, and a night phase after the first, starts where no win
\* predicate holds: a Werewolf is alive and the alive Werewolves are fewer than
\* the other alive players, so at least 3 players are alive and every voter has
\* at least two other alive players to vote for
C33_PhasesStartUndecided ==
    /\ (pc = "day" \/ (pc = "night" /\ round >= 1)) =>
          /\ NoWinner
          /\ Len(get_alive_players) >= 3
    /\ pc \in {"discuss", "vote"} =>
          /\ NoWinner
          /\ day_alive = Range(get_alive_players)
          /\ \A voter \in day_alive : Cardinality(day_alive \ {voter}) >= 2

\* the second night is about to start with three players, after a day that
\* eliminated one
C33_Witness ==
    /\ pc = "night" /\ round = 1
    /\ Len(get_alive_players) = 3
    /\ \E i \in 1..Len(game_history) :
          game_history[i].phase = "Day" /\ game_history[i].name # None

\* C34: when every oracle response is empty or names nobody, every recorded
\* vote is "Pass", no day eliminates a player and no Werewolf dies, so a game
\* with a Werewolf in the roster ends, if it ends, with the Werewolves' win
C34_FailureFavoursWerewolves ==
    /\ \A v \in DOMAIN votes : votes[v] = PassVote
    /\ \A i \in 1..Len(game_history) : game_history[i].phase = "Night"
    /\ \A p \in players : role[p] = "Werewolf" => is_alive[p]
    /\ Wolves(role) >= 1 => metrics.winner \in {"None", "Werewolves win!"}

\* a game of three rounds that the Werewolves won: two days of "Pass" votes lie
\* behind it
C34_Witness ==
    /\ pc = "done" /\ metrics.winner = "Werewolves win!"
    /\ round = 3 /\ Wolves(role) >= 1
    /\ metrics.total_discussion_statements >= 2 * discussion_rounds * 3
    /\ metrics.total_votes = 0

\* C35: seer_correct_accusations never exceeds total_seer_investigations and
\* the seer accuracy written lies within [0, 1]; the counter grows by at most 1
\* in a day, and only in a day whose Seer is alive and has investigated in the
\* night of every round so far
C35_AccusationsWithinInvestigations ==
    /\ [](metrics.seer_correct_accusations <= metrics.total_seer_investigations)
    /\ [](metrics_file.written => metrics_file.seer_accuracy \in 0..100)
    /\ [][metrics'.seer_correct_accusations # metrics.seer_correct_accusations =>
            /\ pc = "tally"
            /\ metrics'.seer_correct_accusations =
                   metrics.seer_correct_accusations + 1
            /\ DaySeer(day_alive) # None
            /\ metrics.total_seer_investigations = round
            /\ metrics.seer_correct_accusations < round]_vars

\* a game that ended with the Seer's vote having eliminated the Werewolf in the
\* second round: one correct accusation for two investigations
C35_Witness ==
    /\ pc = "done" /\ metrics_file.written
    /\ metrics.seer_correct_accusations = 1
    /\ metrics.total_seer_investigations = 2
    /\ metrics_file.seer_accuracy = 50

\* C36: a night that starts with a Medic alive protects exactly one alive
\* player and sets the Medic's last_protected to it, whatever the oracle
\* returns; a night that starts without a Medic protects nobody and changes no
\* last_protected
C36_MedicAlwaysProtects ==
    [][(pc = "night") =>
         LET medic == FirstAlive("Medic")
         IN  /\ pc' = "night_check"
             /\ IF medic # None
                THEN /\ night'.protected \in Range(get_alive_players)
                     /\ last_protected' =
                            [last_protected EXCEPT ![medic] = night'.protected]
                ELSE /\ night'.protected = None
                     /\ last_protected' = last_protected]_vars

\* the oracle gave the Medic no name in the second night, and the fallback
\* protected an alive player
C36_Witness ==
    /\ pc = "night_check" /\ round = 2
    /\ "medic" \notin oracle.answers /\ ~oracle.first
    /\ night.medic # None /\ night.protected_name = None
    /\ night.protected \in night.alive
    /\ last_protected[night.medic] = night.protected

\* the win check on the roster as constructed
WinAtConstruction == WinOf(Wolves(role), Len(role) - Wolves(role))

\* C37: no win check precedes the first night: a game starts in its first
\* night phase with no winner recorded, that night runs whatever the roster,
\* and a finished game has played at least one round
C37_FirstNightAlwaysRuns ==
    /\ pc = "night" /\ round = 0
    /\ [](round = 0 => (pc = "night" /\ metrics.winner = "None"
                          /\ ~metrics_file.written))
    /\ [][(round = 0) => (round' = 1 /\ pc' \in {"night_check", "error"})]_vars
    /\ [](pc = "done" =>
            /\ metrics.rounds_played >= 1
            /\ metrics_file.rounds_played >= 1
            /\ NightEntries # {})

\* a roster in which the Werewolves are as many as the others from the start:
\* the first night ran and killed a player before the game ended
C37_Witness ==
    /\ pc = "done" /\ round = 1
    /\ WinAtConstruction = "Werewolves win!"
    /\ Len(game_history) = 1
    /\ game_history[1].phase = "Night" /\ game_history[1].name # None

\* C38: the recorded winner is None until the game ends and is set once, by
\* the win check that ends it, to that check's result on the alive players the
\* game ends with: Villagers win only without an alive Werewolf, Werewolves win
\* only with an alive Werewolf and at least as many Werewolves as others
C38_WinnerSetOnceAtEnd ==
    /\ [](pc \notin {"done", "error"} => metrics.winner = "None")
    /\ [](pc = "done" =>
            /\ metrics.winner = check_win_condition
            /\ metrics.winner \in {"Villagers win!", "Werewolves win!"}
            /\ metrics_file.winner = metrics.winner
            /\ metrics.winner = "Villagers win!" => AliveW = 0
            /\ metrics.winner = "Werewolves win!" => (AliveW >= 1 /\ AliveW >= AliveV))
    /\ [][metrics'.winner # metrics.winner =>
            /\ metrics.winner = "None"
            /\ pc \in {"night_check", "day_check"}
            /\ pc' \in {"done", "error"}
            /\ is_alive' = is_alive]_vars

\* the Villagers won at the check after the second day, the last Werewolf
\* voted out
C38_Witness ==
    /\ pc = "done" /\ round = 2
    /\ metrics.winner = "Villagers win!" /\ AliveW = 0
    /\ LastHistory.phase = "Day" /\ role[LastHistory.name] = "Werewolf"

\* C39 (as claimed): in game_2_rounds and game_optimized_log the Werewolves'
\* night victim is never a Werewolf, whether the oracle named it or the
\* fallback chose it
C39_EarlyVictimNeverWerewolf ==
    [][(engine \in EarlyEngines /\ pc = "night" /\ pc' = "night_check") =>
         (night'.victim = None \/ role[night'.victim] # "Werewolf")]_vars

====
